---------------------------- MODULE Spec2Model ----------------------------
(***************************************************************************)
(* A model of Geometry.py: polygons, the depth-indexed Rotation and        *)
(* Dilation matrix stacks, Animation.render_shapes (the compositor), the   *)
(* two rasterizers and the volume assembly.                                *)
(*                                                                         *)
(* Numbers.  The program computes in IEEE doubles; the model computes in   *)
(* exact rationals <<n, d>> (d > 0, lowest terms).  Rounding error of the  *)
(* doubles is therefore outside the model.  The special doubles that the   *)
(* program does produce (inf, -inf and nan from a division by 0.0) are     *)
(* modelled by the "kind" of a slope.                                      *)
(*                                                                         *)
(* Images.  A boolean raster is the set of its true pixels <<row, col>>.   *)
(* Every input keeps its pixel coordinates inside the raster, so numpy's   *)
(* IndexError for an index outside the raster is outside the model.        *)
(***************************************************************************)
EXTENDS Integers, Sequences, FiniteSets, TLC

VARIABLES
    \* ---- rasterizer runs (render_points_as_image / render_points_as_wires)
    points,         \* argument: the polygon's points, a sequence of <<x, y>>
    bounds,         \* argument: <<b, b>>
    resolution,     \* argument
    output_image,   \* the returned raster
    scan,           \* the raster after each iteration of the edge loop
    pc,             \* which call has returned
    \* ---- Animation
    depth,          \* the depth every transformation of the run is built with
    shapes,         \* self.shapes: polygon -> list of transformations
    final_shapes,   \* self.final_shapes: None, or one point-set stack per shape
    order,          \* the polygons in the order self.shapes.items() gave them
    applied,        \* per shape, the names of the transformations as applied
    last,           \* the last call: its name, arguments and what it returned
    \* ---- Dilation runs
    scale_factor,   \* argument
    dil_depth,      \* argument
    dilation        \* the constructed Dilation, or None

rvars == <<points, bounds, resolution, output_image, scan, pc>>
avars == <<depth, shapes, final_shapes, order, applied, last>>
dvars == <<scale_factor, dil_depth, dilation>>
vars  == <<rvars, avars, dvars>>

\* An optional value is the empty set (None) or the set of its one value.
None == {}
Some(v) == {v}
Get(o) == CHOOSE v \in o : TRUE

\* A list or array built by a comprehension, as a tuple.
List(f) == <<>> \o f

-----------------------------------------------------------------------------
(* Exact rational arithmetic standing for the program's float arithmetic.  *)

Abs(a) == IF a < 0 THEN -a ELSE a

RECURSIVE GCD(_, _)
GCD(a, b) == IF b = 0 THEN a ELSE GCD(b, a % b)

Norm(n, d) ==
    LET s == IF d < 0 THEN -1 ELSE 1
        g == GCD(Abs(n), Abs(d))
    IN  <<(s * n) \div g, (s * d) \div g>>

Rat(n) == <<n, 1>>
RAdd(a, b) == Norm(a[1] * b[2] + b[1] * a[2], a[2] * b[2])
RSub(a, b) == Norm(a[1] * b[2] - b[1] * a[2], a[2] * b[2])
RMul(a, b) == Norm(a[1] * b[1], a[2] * b[2])
RDiv(a, b) == Norm(a[1] * b[2], a[2] * b[1])

\* np.floor
Floor(a) == a[1] \div a[2]

\* int(): truncation toward zero
Trunc(a) == IF a[1] >= 0 THEN a[1] \div a[2] ELSE -((-a[1]) \div a[2])

-----------------------------------------------------------------------------
(* numpy indexing of one axis of length n.                                 *)

\* a[i] with a negative i counted from the end
PyIndex(i, n) == IF i < 0 THEN i + n ELSE i

\* the indices of a[lo:hi]
PySlice(lo, hi, n) ==
    LET clip(k) == IF k < 0 THEN (IF k + n < 0 THEN 0 ELSE k + n)
                   ELSE (IF k > n THEN n ELSE k)
    IN  clip(lo) .. (clip(hi) - 1)

\* a[row][lo:hi] = np.logical_xor(True, a[row][lo:hi])
ToggleRun(image, row, lo, hi, n) ==
    LET run == {<<row, c>> : c \in PySlice(lo, hi, n)}
    IN  (image \ run) \cup (run \ image)

\* a[row][lo:hi] = True
SetRun(image, row, lo, hi, n) ==
    image \cup {<<row, c>> : c \in PySlice(lo, hi, n)}

-----------------------------------------------------------------------------
(* The normalisation both rasterizers start with.                          *)

\* append the first point, shift by bounds[1], divide by step_size, floor
ToPixels(pts, bnds, res) ==
    LET step_size == RDiv(RMul(Rat(bnds[2]), Rat(2)), Rat(res))
        closed    == Append(pts, pts[1])
        pix(v)    == Floor(RDiv(RAdd(v, Rat(bnds[2])), step_size))
    IN  List([i \in 1..Len(closed) |-> <<pix(closed[i][1]), pix(closed[i][2])>>])

\* slope = (p2[1]-p1[1])/(p2[0]-p1[0]) on numpy doubles: a zero divisor gives
\* inf, -inf or nan (with a warning), never an exception
Slope(p1, p2) ==
    LET dy == p2[2] - p1[2]
        dx == p2[1] - p1[1]
    IN  IF dx # 0 THEN [kind |-> "fin", val |-> Norm(dy, dx)]
        ELSE IF dy > 0 THEN [kind |-> "inf", val |-> Rat(0)]
        ELSE IF dy < 0 THEN [kind |-> "-inf", val |-> Rat(0)]
        ELSE [kind |-> "nan", val |-> Rat(0)]

\* a variant of SlopeTruthy that takes only a finite non-zero slope as true
SlopeTruthy_FiniteOnly(slope) == slope.kind = "fin" /\ slope.val[1] # 0

\* `if slope:` -- every double but 0.0 and -0.0 is true, inf and nan included
SlopeTruthy(slope) == ~(slope.kind = "fin" /\ slope.val[1] = 0)

\* np.abs(slope) > 1 (false for nan)
SlopeSteep(slope) ==
    \/ slope.kind \in {"inf", "-inf"}
    \/ slope.kind = "fin" /\ Abs(slope.val[1]) > slope.val[2]

\* k / slope, for a slope that is true: k / (+-inf) is (+-)0.0
DivBySlope(k, slope) ==
    IF slope.kind = "fin" THEN RDiv(Rat(k), slope.val) ELSE Rat(0)


-----------------------------------------------------------------------------
(* render_points_as_image: the parity fill.                                *)

\* the body of the y_step loop: toggle the row of new_y left of new_x
FillStep(image, p1, p2, y_step, res) ==
    LET slope == Slope(p1, p2)
        up    == p2[2] > p1[2]
        new_y == IF up THEN p1[2] + y_step ELSE p1[2] - y_step
        new_x == IF up THEN Trunc(RAdd(Rat(p1[1]), DivBySlope(y_step, slope)))
                       ELSE Trunc(RSub(Rat(p1[1]), DivBySlope(y_step, slope)))
    IN  IF SlopeTruthy(slope)
        THEN ToggleRun(image, PyIndex(-new_y, res), 0, new_x, res)
        ELSE image

\* for y_step in range(int(np.abs(p2[1]-p1[1])))
RECURSIVE FillEdgeFrom(_, _, _, _, _)
FillEdgeFrom(image, p1, p2, y_step, res) ==
    IF y_step >= Abs(p2[2] - p1[2]) THEN image
    ELSE FillEdgeFrom(FillStep(image, p1, p2, y_step, res), p1, p2, y_step + 1, res)

FillEdge(image, p1, p2, res) == FillEdgeFrom(image, p1, p2, 0, res)

\* for i in range(len(points)-1): the raster before the loop and after each
\* of its iterations
RECURSIVE FillScanFrom(_, _, _, _)
FillScanFrom(trace, pix, i, res) ==
    IF i > Len(pix) - 1 THEN trace
    ELSE FillScanFrom(Append(trace, FillEdge(trace[Len(trace)], pix[i], pix[i + 1], res)),
                      pix, i + 1, res)

FillScan(pix, res) == FillScanFrom(<<{}>>, pix, 1, res)

\* a variant of CornerPassFrom that leaves the corners as the edge loop
\* left them
CornerPassFrom_Skipped(image, pix, i, res) == image

\* for point in points[:-1]: the corner pass
RECURSIVE CornerPassFrom(_, _, _, _)
CornerPassFrom(image, pix, i, res) ==
    IF i > Len(pix) - 1 THEN image
    ELSE LET row == PyIndex(-pix[i][2], res)
             fixed == IF <<row, 0>> \in image
                      THEN ToggleRun(image, row, 0, pix[i][1], res)
                      ELSE image
         IN  CornerPassFrom(fixed, pix, i + 1, res)

render_points_as_image(pts, bnds, res) ==
    LET pix   == ToPixels(pts, bnds, res)
        trace == FillScan(pix, res)
    IN  CornerPassFrom(trace[Len(trace)], pix, 1, res)

-----------------------------------------------------------------------------
(* render_points_as_wires: the line walk onto output_image.                *)

\* the body of the y_step loop: one pixel
WireStepY(image, p1, p2, y_step, res) ==
    LET slope == Slope(p1, p2)
        up    == p2[2] > p1[2]
        new_y == IF up THEN p1[2] + y_step ELSE p1[2] - y_step
        new_x == IF up THEN Trunc(RAdd(Rat(p1[1]), DivBySlope(y_step, slope)))
                       ELSE Trunc(RSub(Rat(p1[1]), DivBySlope(y_step, slope)))
    IN  IF SlopeTruthy(slope)
        THEN image \cup {<<PyIndex(-new_y, res), PyIndex(new_x, res)>>}
        ELSE image

\* a variant of WireStepX that sets the pixels new_x-2 .. new_x
WireStepX_Wide(image, p1, p2, x_step, res) ==
    LET slope == Slope(p1, p2)
        right == p2[1] > p1[1]
        new_y == IF SlopeTruthy(slope)
                 THEN (IF right
                       THEN Trunc(RAdd(Rat(p1[2]), RMul(Rat(x_step), slope.val)))
                       ELSE Trunc(RSub(Rat(p1[2]), RMul(Rat(x_step), slope.val))))
                 ELSE p1[2]
        new_x == IF SlopeTruthy(slope)
                 THEN (IF right THEN p1[1] + x_step ELSE p1[1] - x_step)
                 ELSE (IF p1[1] > p2[1] THEN p1[1] - x_step ELSE p1[1] + x_step)
    IN  SetRun(image, PyIndex(-new_y, res), new_x - 2, new_x + 1, res)

\* the body of the x_step loop: the pixels new_x-1 and new_x
WireStepX(image, p1, p2, x_step, res) ==
    LET slope == Slope(p1, p2)
        right == p2[1] > p1[1]
        new_y == IF SlopeTruthy(slope)
                 THEN (IF right
                       THEN Trunc(RAdd(Rat(p1[2]), RMul(Rat(x_step), slope.val)))
                       ELSE Trunc(RSub(Rat(p1[2]), RMul(Rat(x_step), slope.val))))
                 ELSE p1[2]
        new_x == IF SlopeTruthy(slope)
                 THEN (IF right THEN p1[1] + x_step ELSE p1[1] - x_step)
                 ELSE (IF p1[1] > p2[1] THEN p1[1] - x_step ELSE p1[1] + x_step)
    IN  SetRun(image, PyIndex(-new_y, res), new_x - 1, new_x + 1, res)

RECURSIVE WireEdgeFrom(_, _, _, _, _)
WireEdgeFrom(image, p1, p2, k, res) ==
    IF SlopeSteep(Slope(p1, p2))
    THEN IF k >= Abs(p2[2] - p1[2]) THEN image
         ELSE WireEdgeFrom(WireStepY(image, p1, p2, k, res), p1, p2, k + 1, res)
    ELSE IF k >= Abs(p2[1] - p1[1]) THEN image
         ELSE WireEdgeFrom(WireStepX(image, p1, p2, k, res), p1, p2, k + 1, res)

RECURSIVE WireEdgesFrom(_, _, _, _)
WireEdgesFrom(image, pix, i, res) ==
    IF i > Len(pix) - 1 THEN image
    ELSE WireEdgesFrom(WireEdgeFrom(image, pix[i], pix[i + 1], 0, res), pix, i + 1, res)

\* a variant of render_points_as_wires that always draws on a fresh raster
render_points_as_wires_Fresh(pts, bnds, res, image) ==
    WireEdgesFrom({}, ToPixels(pts, bnds, res), 1, res)

\* image = None stands for the absent argument: a fresh raster
render_points_as_wires(pts, bnds, res, image) ==
    LET start == IF image = None THEN {} ELSE Get(image)
    IN  WireEdgesFrom(start, ToPixels(pts, bnds, res), 1, res)

-----------------------------------------------------------------------------
(* Polygons.  A point is <<x, y>>, a polygon [name, points, center]; name  *)
(* stands for the object's identity (a Polygon is a dict key by identity). *)

PAdd(p, q) == <<RAdd(p[1], q[1]), RAdd(p[2], q[2])>>
PSub(p, q) == <<RSub(p[1], q[1]), RSub(p[2], q[2])>>

RECURSIVE SumPoints(_, _)
SumPoints(pts, i) ==
    IF i > Len(pts) THEN <<Rat(0), Rat(0)>> ELSE PAdd(pts[i], SumPoints(pts, i + 1))

\* centroid = sum(self.points)/len(self.points), on float arrays
find_center(pts) ==
    LET sum_point == SumPoints(pts, 1)
    IN  <<RDiv(sum_point[1], Rat(Len(pts))), RDiv(sum_point[2], Rat(Len(pts)))>>

Polygon(name, pts) == [name |-> name, points |-> pts, center |-> find_center(pts)]

\* Square(l, center): n_Sided_Polygon(4, sqrt(2)*l/2, center, pi/4), whose
\* vertices are center + (+-l/2, +-l/2), counter-clockwise from (+, +)
Square(name, l, center) ==
    LET h == RDiv(l, Rat(2))
        c == <<Rat(center[1]), Rat(center[2])>>
    IN  Polygon(name, << PAdd(c, <<h, h>>), PAdd(c, <<RSub(Rat(0), h), h>>),
                         PAdd(c, <<RSub(Rat(0), h), RSub(Rat(0), h)>>),
                         PAdd(c, <<h, RSub(Rat(0), h)>>) >>)

-----------------------------------------------------------------------------
(* Transformations: [name, center, trans_mat], trans_mat a sequence of     *)
(* depth+1 matrices <<<<a, b>>, <<c, d>>>>; trans_mat[i + 1] is the        *)
(* program's trans_mat[i].                                                 *)

\* np.cos and np.sin of an angle in degrees that is a multiple of 90 (the
\* only angles the runs use), as exact values
CosDeg(a) == LET q == (a[1] \div 90) % 4 IN IF q = 0 THEN 1 ELSE IF q = 2 THEN -1 ELSE 0
SinDeg(a) == LET q == (a[1] \div 90) % 4 IN IF q = 1 THEN 1 ELSE IF q = 3 THEN -1 ELSE 0

\* Rotation.__init__: matrix i rotates by theta/depth * i; `if center:` keeps
\* a non-empty tuple and turns None into None
Rotation(name, theta, center, d) ==
    LET angle(i) == RMul(RDiv(Rat(theta), Rat(d)), Rat(i))
    IN  [name |-> name,
         center |-> IF center = None THEN None
                    ELSE Some(<<Rat(Get(center)[1]), Rat(Get(center)[2])>>),
         trans_mat |-> List([k \in 1..(d + 1) |->
             << <<Rat(CosDeg(angle(k - 1))), Rat(-SinDeg(angle(k - 1)))>>,
                <<Rat(SinDeg(angle(k - 1))), Rat(CosDeg(angle(k - 1)))>> >>])]

\* a variant of DilationEntry whose interpolation starts one step in
DilationEntry_OffByOne(sf, d, i) ==
    IF sf[1] > sf[2]
    THEN RAdd(Rat(1), RDiv(RMul(Rat(i + 1), sf), Rat(d)))
    ELSE RSub(Rat(1), RDiv(RMul(Rat(i + 1), RSub(Rat(1), sf)), Rat(d)))

\* the diagonal entry of matrix i of Dilation(sf, d)
DilationEntry(sf, d, i) ==
    IF sf[1] > sf[2]                                         \* scale_factor > 1
    THEN RAdd(Rat(1), RDiv(RMul(Rat(i), sf), Rat(d)))
    ELSE RSub(Rat(1), RDiv(RMul(Rat(i), RSub(Rat(1), sf)), Rat(d)))

\* Dilation.__init__
Dilation(name, sf, d) ==
    [name |-> name,
     center |-> None,
     trans_mat |-> List([k \in 1..(d + 1) |->
         << <<DilationEntry(sf, d, k - 1), Rat(0)>>,
            <<Rat(0), DilationEntry(sf, d, k - 1)>> >>])]

\* np.dot of a 2x2 matrix and a point
Dot(m, p) == <<RAdd(RMul(m[1][1], p[1]), RMul(m[1][2], p[2])),
               RAdd(RMul(m[2][1], p[1]), RMul(m[2][2], p[2]))>>

-----------------------------------------------------------------------------
(* Animation.render_shapes.                                                *)

\* [t for t in transformations if type(t.center) is NoneType]
center_transformations(transformations) ==
    SelectSeq(transformations, LAMBDA t : t.center = None)

\* [t for t in transformations if t not in center_transformations]
other_transformations(transformations) ==
    LET cs == center_transformations(transformations)
    IN  SelectSeq(transformations, LAMBDA t : ~(\E j \in 1..Len(cs) : cs[j] = t))

\* a variant of Reordered that keeps the registered order
Reordered_AsRegistered(transformations) == transformations

\* transformations = center_transformations + other_transformations
Reordered(transformations) ==
    center_transformations(transformations) \o other_transformations(transformations)

\* the point about which t acts on shape
Pivot(t, shape) == IF t.center # None THEN Get(t.center) ELSE shape.center

\* the first transformation: every matrix of the stack applied to the
\* shape's points (np.dot of the whole stack)
ApplyFirst(t, shape) ==
    List([k \in 1..Len(t.trans_mat) |->
        List([n \in 1..Len(shape.points) |->
            PAdd(Dot(t.trans_mat[k], PSub(shape.points[n], Pivot(t, shape))),
                 Pivot(t, shape))])])

\* a later transformation: matrix i applied to the point set at depth i,
\* for i in range(len(transformation.trans_mat))
ApplyNext(t, shape, new_shape) ==
    List([k \in 1..Len(t.trans_mat) |->
        List([n \in 1..Len(new_shape[k]) |->
            PAdd(Dot(t.trans_mat[k], PSub(new_shape[k][n], Pivot(t, shape))),
                 Pivot(t, shape))])])

RECURSIVE ApplyRest(_, _, _, _)
ApplyRest(ts, shape, new_shape, j) ==
    IF j > Len(ts) THEN new_shape
    ELSE ApplyRest(ts, shape, ApplyNext(ts[j], shape, new_shape), j + 1)

\* the body of the loop over self.shapes.items(): the shape's point-set stack
RenderShape(shape, transformations) ==
    LET ts == Reordered(transformations)
    IN  ApplyRest(ts, shape, ApplyFirst(ts[1], shape), 2)

\* the names of the transformations in the order RenderShape applies them
AppliedNames(transformations) ==
    LET ts == Reordered(transformations)
    IN  List([j \in 1..Len(ts) |-> ts[j].name])

\* the orders in which a dict with these keys may hand out its items
Orders(keys) ==
    {q \in [1..Cardinality(keys) -> keys] : \A k \in keys : \E i \in DOMAIN q : q[i] = k}

-----------------------------------------------------------------------------
(* Animation.render_volume_data and Animation.write_to_scad, on the list   *)
(* fs of point-set stacks (self.final_shapes).                             *)

\* fast: every shape is drawn, depth index by depth index, onto the shared
\* raster final_volume[i]
RECURSIVE VolumeFast(_, _, _, _, _)
VolumeFast(final_volume, fs, k, bnds, res) ==
    IF k > Len(fs) THEN final_volume
    ELSE VolumeFast(List([i \in 1..Len(final_volume) |->
                        IF i <= Len(fs[k])
                        THEN render_points_as_wires(fs[k][i], bnds, res,
                                                    Some(final_volume[i]))
                        ELSE final_volume[i]]),
                    fs, k + 1, bnds, res)

\* np.logical_xor of two rasters
LogicalXor(a, b) == (a \ b) \cup (b \ a)

\* np.logical_or of two rasters
LogicalOr(a, b) == a \cup b

\* not fast: every shape is filled into rasters of its own (volume_data),
\* which are or-ed into final_volume
RECURSIVE VolumeFilled(_, _, _, _, _)
VolumeFilled(final_volume, fs, k, bnds, res) ==
    IF k > Len(fs) THEN final_volume
    ELSE LET volume_data == List([i \in 1..Len(fs[k]) |->
                                render_points_as_image(fs[k][i], bnds, res)])
         IN  VolumeFilled(List([i \in 1..Len(final_volume) |->
                              LogicalOr(final_volume[i], volume_data[i])]),
                          fs, k + 1, bnds, res)

\* final_volume = np.zeros((len(self.final_shapes[0]), resolution, resolution))
Volume(fs, bnds, res, fast) ==
    LET zeros == [i \in 1..Len(fs[1]) |-> {}]
    IN  IF fast THEN VolumeFast(zeros, fs, 1, bnds, res)
        ELSE VolumeFilled(zeros, fs, 1, bnds, res)

\* for i in range(501)
ScadLayerCount == 501

\* write_to_scad's loops: per shape the layers i = 0..500, each the polygon
\* shape[i] moved up by i/5.0; shape[i] past the end of a stack raises
\* IndexError before anything is written
ScadExport(fs) ==
    IF \E k \in 1..Len(fs) : Len(fs[k]) < ScadLayerCount
    THEN [raised |-> "IndexError", scad |-> None]
    ELSE [raised |-> "",
          scad |-> Some([k \in 1..Len(fs) |->
                           [i \in 1..ScadLayerCount |->
                               [polygon |-> fs[k][i], up |-> Norm(i - 1, 5)]]])]

-----------------------------------------------------------------------------
(* The polygons and transformations of the Animation runs.                 *)

MaxDepth == 2     \* the runs build their transformations with depth 1..MaxDepth
MaxTrans == 3     \* the longest transformation list of the compositor runs
AnimRes   == 10   \* resolution of the volume renders
AnimBound == 5    \* bounds = (AnimBound, AnimBound)

sqA == Square("sqA", Rat(2), <<0, 0>>)
sqB == Square("sqB", Rat(2), <<1, 1>>)
Polygons == {sqA, sqB}

rotC(d) == Rotation("rotC", 90 * d, None, d)
rotP(d) == Rotation("rotP", 180 * d, Some(<<1, 0>>), d)
rotQ(d) == Rotation("rotQ", -90 * d, Some(<<0, 1>>), d)
dil2(d) == Dilation("dil2", Rat(2), d)
dilH(d) == Dilation("dilH", <<1, 2>>, d)

\* every list of 1..MaxTrans transformations over three center-relative
\* and two fixed-pivot ones
ComposeLists(d) ==
    LET pool == {rotC(d), rotP(d), rotQ(d), dil2(d), dilH(d)}
    IN  UNION {[1..n -> pool] : n \in 1..MaxTrans}

\* the lists of the volume and export runs
AnimLists(d) ==
    {<<rotC(d)>>, <<rotQ(d), dilH(d)>>, <<dil2(d)>>}

-----------------------------------------------------------------------------
(* The Animation's operations.                                             *)

Call(op) == [op |-> op, fast |-> FALSE, rendered |-> FALSE,
             volume |-> None, raised |-> "", scad |-> None]

\* Animation(polygon, transformations)
AnimationInit(polygon, transformations) ==
    /\ shapes = [k \in {polygon} |-> transformations]
    /\ final_shapes = None
    /\ order = <<>>
    /\ applied = <<>>
    /\ last = Call("__init__")

\* self.shapes[polygon] = transformations
add_shape(polygon, transformations) ==
    /\ shapes' = [k \in DOMAIN shapes \cup {polygon} |->
                     IF k = polygon THEN transformations ELSE shapes[k]]
    /\ last' = Call("add_shape")
    /\ UNCHANGED <<depth, final_shapes, order, applied, rvars, dvars>>

\* what render_shapes leaves in final_shapes when the dict hands out its
\* items in the order q
Rendered(q) == List([i \in 1..Len(q) |-> RenderShape(q[i], shapes[q[i]])])

render_shapes ==
    \E q \in Orders(DOMAIN shapes) :
        /\ final_shapes' = Some(Rendered(q))
        /\ order' = q
        /\ applied' = [i \in 1..Len(q) |-> AppliedNames(shapes[q[i]])]
        /\ last' = [Call("render_shapes") EXCEPT !.rendered = TRUE]
        /\ UNCHANGED <<depth, shapes, rvars, dvars>>

\* render_shapes runs only while final_shapes is None
render_volume_data(bnds, res, fast) ==
    \E q \in IF final_shapes = None THEN Orders(DOMAIN shapes) ELSE {order} :
        LET fresh == final_shapes = None
            fs    == IF fresh THEN Rendered(q) ELSE Get(final_shapes)
        IN  /\ final_shapes' = Some(fs)
            /\ order' = IF fresh THEN q ELSE order
            /\ applied' = IF fresh
                          THEN [i \in 1..Len(q) |-> AppliedNames(shapes[q[i]])]
                          ELSE applied
            /\ last' = [Call("render_volume_data") EXCEPT
                           !.fast = fast, !.rendered = fresh,
                           !.volume = Some(Volume(fs, bnds, res, fast))]
            /\ UNCHANGED <<depth, shapes, rvars, dvars>>

write_to_scad ==
    \E q \in IF final_shapes = None THEN Orders(DOMAIN shapes) ELSE {order} :
        LET fresh == final_shapes = None
            fs    == IF fresh THEN Rendered(q) ELSE Get(final_shapes)
        IN  /\ final_shapes' = Some(fs)
            /\ order' = IF fresh THEN q ELSE order
            /\ applied' = IF fresh
                          THEN [i \in 1..Len(q) |-> AppliedNames(shapes[q[i]])]
                          ELSE applied
            /\ last' = [Call("write_to_scad") EXCEPT
                           !.rendered = fresh,
                           !.raised = ScadExport(fs).raised,
                           !.scad = ScadExport(fs).scad]
            /\ UNCHANGED <<depth, shapes, rvars, dvars>>

-----------------------------------------------------------------------------
(* Rasterizer runs: one call of a rasterizer on a polygon drawn from the   *)
(* inputs below.                                                           *)

RasterRes   == 7      \* resolution of the rasterizer runs
RasterBound == 2      \* bounds = (RasterBound, RasterBound)

\* the world coordinate that falls in pixel k, a fraction f of a pixel in
Coord(k, f, b, res) ==
    RSub(RMul(RAdd(Rat(k), f), RDiv(Rat(2 * b), Rat(res))), Rat(b))

\* the four vertices of an axis-aligned rectangle, from each starting vertex
\* and in both winding orders
RectOrders(x0, x1, y0, y1) ==
    LET ccw == << <<x1, y1>>, <<x0, y1>>, <<x0, y0>>, <<x1, y0>> >>
        rot(q, k) == [i \in 1..4 |-> q[((i + k - 1) % 4) + 1]]
        rev(q)    == [i \in 1..4 |-> q[5 - i]]
    IN  {rot(ccw, k) : k \in 0..3} \cup {rot(rev(ccw), k) : k \in 0..3}

RectanglePixels ==
    UNION {RectOrders(x0, x1, y0, y1) :
              <<x0, x1, y0, y1>> \in {q \in (0..RasterRes - 1) \X (0..RasterRes - 1)
                                           \X (0..RasterRes - 1) \X (0..RasterRes - 1) :
                                           q[1] < q[2] /\ q[3] < q[4]}}

\* triangles over a coarse lattice: sloped, horizontal and vertical edges
TrianglePixels ==
    LET lattice == {1, 3, RasterRes - 2} \X {1, 2, RasterRes - 2}
    IN  {<<a, b, c>> : <<a, b, c>> \in {t \in lattice \X lattice \X lattice :
                                          t[1] # t[2] /\ t[2] # t[3] /\ t[1] # t[3]}}

RasterInputs ==
    {[i \in 1..Len(q) |-> <<Coord(q[i][1], f, RasterBound, RasterRes),
                            Coord(q[i][2], f, RasterBound, RasterRes)>>] :
        q \in RectanglePixels \cup TrianglePixels, f \in {<<0, 1>>, <<1, 2>>}}

\* the state of the variables a run does not use
RasterIdle ==
    /\ points = <<>> /\ bounds = <<0, 0>> /\ resolution = 0
    /\ output_image = {} /\ scan = <<>> /\ pc = "idle"

AnimationIdle ==
    /\ depth = 0 /\ shapes = <<>> /\ final_shapes = None /\ order = <<>>
    /\ applied = <<>> /\ last = Call("idle")

DilationIdle ==
    /\ scale_factor = Rat(0) /\ dil_depth = 0 /\ dilation = None

RasterInit ==
    /\ AnimationIdle /\ DilationIdle
    /\ points \in RasterInputs
    /\ bounds = <<RasterBound, RasterBound>>
    /\ resolution = RasterRes
    /\ output_image = {}
    /\ scan = <<>>
    /\ pc = "start"

\* image = render_points_as_image(points, bounds, resolution)
RenderPointsAsImage ==
    /\ pc = "start"
    /\ output_image' = render_points_as_image(points, bounds, resolution)
    /\ scan' = FillScan(ToPixels(points, bounds, resolution), resolution)
    /\ pc' = "image"
    /\ UNCHANGED <<points, bounds, resolution, avars, dvars>>

\* image = render_points_as_wires(points, bounds, resolution)
RenderPointsAsWires ==
    /\ pc = "start"
    /\ output_image' = render_points_as_wires(points, bounds, resolution, None)
    /\ pc' = "wires"
    /\ UNCHANGED <<points, bounds, resolution, scan, avars, dvars>>

RasterNext == RenderPointsAsImage \/ RenderPointsAsWires

RasterSpec == RasterInit /\ [][RasterNext]_vars

-----------------------------------------------------------------------------
(* Dilation runs: one construction of a Dilation.                          *)

MaxScale == 6     \* scale factors run over the quarters from -1 to MaxScale

DilationInit ==
    /\ RasterIdle /\ AnimationIdle
    /\ scale_factor \in {Norm(k, 4) : k \in (-4)..(4 * MaxScale)}
    /\ dil_depth \in 1..MaxDepth
    /\ dilation = None

\* dilation = Dilation(scale_factor, dil_depth)
NewDilation ==
    /\ dilation = None
    /\ dilation' = Some(Dilation("dilation", scale_factor, dil_depth))
    /\ UNCHANGED <<scale_factor, dil_depth, rvars, avars>>

DilationNext == NewDilation

DilationSpec == DilationInit /\ [][DilationNext]_vars

-----------------------------------------------------------------------------
(* Compositor runs: render_shapes on an Animation built from a polygon and  *)
(* any of the transformation lists.                                        *)

ComposeInit ==
    /\ RasterIdle /\ DilationIdle
    /\ depth \in 1..MaxDepth
    /\ \E polygon \in Polygons, transformations \in ComposeLists(depth) :
          AnimationInit(polygon, transformations)

ComposeNext == render_shapes

ComposeSpec == ComposeInit /\ [][ComposeNext]_vars

-----------------------------------------------------------------------------
(* Animation runs: add_shape, render_shapes, render_volume_data and        *)
(* write_to_scad in any order.                                             *)

AnimInit ==
    /\ RasterIdle /\ DilationIdle
    /\ depth \in 1..MaxDepth
    /\ \E polygon \in Polygons, transformations \in AnimLists(depth) :
          AnimationInit(polygon, transformations)

AnimNext ==
    \/ \E polygon \in Polygons, transformations \in AnimLists(depth) :
          add_shape(polygon, transformations)
    \/ render_shapes
    \/ \E fast \in BOOLEAN :
          render_volume_data(<<AnimBound, AnimBound>>, AnimRes, fast)
    \/ write_to_scad

AnimSpec == AnimInit /\ [][AnimNext]_vars

\* every point set of final_shapes falls inside the raster of the volume
\* renders (the condition under which the rasterizers raise no IndexError)
InsideRaster ==
    final_shapes # None =>
        \A k \in 1..Len(Get(final_shapes)) : \A i \in 1..Len(Get(final_shapes)[k]) :
            \A px \in {ToPixels(Get(final_shapes)[k][i], <<AnimBound, AnimBound>>, AnimRes)} :
                \A n \in 1..Len(px) :
                    px[n][1] \in 0..(AnimRes - 1) /\ px[n][2] \in 0..(AnimRes - 1)

-----------------------------------------------------------------------------
(* Properties of the rasterizers (checked under RasterSpec).               *)

MinOf(S) == CHOOSE m \in S : \A k \in S : m <= k
MaxOf(S) == CHOOSE m \in S : \A k \in S : m >= k

\* the pixel polygon of the run's input, closed
Pix == ToPixels(points, bounds, resolution)

\* the corners [x0, x1, y0, y1] of the pixel polygon px when it is an
\* axis-aligned rectangle with 0 < x0 < x1 < R and 0 < y0 < y1 < R (the set
\* is empty when it is not)
Rectangles(px, res) ==
    LET xs == {px[i][1] : i \in 1..(Len(px) - 1)}
        ys == {px[i][2] : i \in 1..(Len(px) - 1)}
    IN  IF /\ Len(px) = 5
           /\ Cardinality(xs) = 2 /\ Cardinality(ys) = 2
           /\ Cardinality({px[i] : i \in 1..4}) = 4
           /\ \A i \in 1..4 : (px[i][1] = px[i + 1][1]) # (px[i][2] = px[i + 1][2])
           /\ 0 < MinOf(xs) /\ MaxOf(xs) < res
           /\ 0 < MinOf(ys) /\ MaxOf(ys) < res
        THEN {[x0 |-> MinOf(xs), x1 |-> MaxOf(xs), y0 |-> MinOf(ys), y1 |-> MaxOf(ys)]}
        ELSE {}

\* the pixel at height y, column c: image row -y
At(y, c) == <<(resolution - y) % resolution, c>>

Grid == 0..(resolution - 1)

\* C5: the filled image of an axis-aligned rectangle (any starting vertex,
\* either winding) is true on every column x0 <= c < x1 of every row strictly
\* between y0 and y1, and false on every pixel whose column is outside
\* [x0, x1) or whose row is outside y0..y1.
C5_FilledRectangle ==
    pc = "image" =>
        \A r \in Rectangles(Pix, resolution) : \A y \in Grid, c \in Grid :
            /\ (r.x0 <= c /\ c < r.x1 /\ r.y0 < y /\ y < r.y1)
                   => At(y, c) \in output_image
            /\ (c < r.x0 \/ c >= r.x1 \/ y < r.y0 \/ y > r.y1)
                   => At(y, c) \notin output_image

C5_Witness ==
    /\ pc = "image"
    /\ \E r \in Rectangles(Pix, resolution) :
          /\ r.y1 - r.y0 >= 3 /\ r.x1 - r.x0 >= 2
          /\ Pix[1] = <<r.x0, r.y0>> /\ Pix[2] = <<r.x0, r.y1>>
          /\ At(r.y0 + 1, r.x0) \in output_image
          /\ At(r.y0 + 2, r.x1 - 1) \in output_image

\* C6 as stated: the wireframe of an axis-aligned rectangle leaves every
\* pixel strictly inside the rectangle false and every pixel outside its
\* bounding box false.
C6_OutlineOnly ==
    pc = "wires" =>
        \A r \in Rectangles(Pix, resolution) : \A y \in Grid, c \in Grid :
            /\ (r.x0 < c /\ c < r.x1 /\ r.y0 < y /\ y < r.y1)
                   => At(y, c) \notin output_image
            /\ (c < r.x0 \/ c > r.x1 \/ y < r.y0 \/ y > r.y1)
                   => At(y, c) \notin output_image

\* C6 amended: the interior stays false, and every pixel outside the
\* bounding box widened by one column on the left (columns x0-1..x1, rows
\* y0..y1) stays false; the x-step loop sets the pixels new_x-1 and new_x.
C6_OutlineWidened ==
    pc = "wires" =>
        \A r \in Rectangles(Pix, resolution) : \A y \in Grid, c \in Grid :
            /\ (r.x0 < c /\ c < r.x1 /\ r.y0 < y /\ y < r.y1)
                   => At(y, c) \notin output_image
            /\ (c < r.x0 - 1 \/ c > r.x1 \/ y < r.y0 \/ y > r.y1)
                   => At(y, c) \notin output_image

C6_Witness ==
    /\ pc = "wires"
    /\ \E r \in Rectangles(Pix, resolution) :
          /\ r.y1 - r.y0 >= 3 /\ r.x1 - r.x0 >= 3
          /\ At(r.y0, r.x0) \in output_image
          /\ At(r.y1 - 1, r.x1) \in output_image
          /\ \E y \in {r.y0, r.y1} : At(y, r.x0 - 1) \in output_image

\* edge i of the closed pixel polygon px joins two pixels of one column
VerticalEdge(px, i) == px[i][1] = px[i + 1][1] /\ px[i][2] # px[i + 1][2]

\* C8 as stated: in render_points_as_image an edge with delta x = 0 and
\* delta y # 0 is skipped: it toggles no pixel.
C8_VerticalSkipped ==
    pc = "image" =>
        \A px \in {Pix} : \A i \in 1..(Len(px) - 1) :
            VerticalEdge(px, i) => scan[i + 1] = scan[i]

\* the rows the y_step loop visits on edge i: from p1's height toward p2's,
\* p1's included and p2's excluded
EdgeHeights(px, i) ==
    IF px[i + 1][2] > px[i][2] THEN px[i][2] .. (px[i + 1][2] - 1)
    ELSE (px[i + 1][2] + 1) .. px[i][2]

\* C8 amended: a vertical edge raises no error and is not skipped (its slope
\* is inf or -inf, which is true): on each row from p1's height toward p2's
\* (p2's excluded) it toggles every pixel left of the edge's column, and no
\* other pixel.
C8_VerticalToggles ==
    pc = "image" =>
        \A px \in {Pix} : \A i \in 1..(Len(px) - 1) :
            VerticalEdge(px, i) =>
                \A y \in Grid, c \in Grid :
                    ((At(y, c) \in scan[i + 1]) # (At(y, c) \in scan[i]))
                        <=> (y \in EdgeHeights(px, i) /\ c < px[i][1])

C8_Witness ==
    /\ pc = "image"
    /\ \E px \in {Pix} : \E i \in 1..(Len(px) - 1) :
          /\ VerticalEdge(px, i) /\ px[i][1] > 0
          /\ px[i + 1][2] < px[i][2] - 1
          /\ scan[i + 1] # scan[i]

-----------------------------------------------------------------------------
(* Properties of Dilation (checked under DilationSpec).                    *)

Diagonal(v) == << <<v, Rat(0)>>, <<Rat(0), v>> >>

\* C7: Dilation(s, D) holds D+1 diagonal matrices whose diagonal value runs
\* linearly from 1.0 at index 0 to exactly s at index D, for s <= 1 and for
\* s > 1 alike.
C7_DilationInterpolates ==
    \A dil \in dilation :
        /\ Len(dil.trans_mat) = dil_depth + 1
        /\ \A i \in 0..dil_depth :
              dil.trans_mat[i + 1] =
                  Diagonal(RAdd(Rat(1), RDiv(RMul(Rat(i), RSub(scale_factor, Rat(1))),
                                             Rat(dil_depth))))
        /\ dil.trans_mat[dil_depth + 1] = Diagonal(scale_factor)

-----------------------------------------------------------------------------
(* Properties of render_shapes (checked under ComposeSpec).                *)

\* names lists the transformations of registered, a transformation list,
\* as a stable partition: center-relative ones first, fixed-pivot ones
\* after, each kind in its registered order
StablePartition(names, registered) ==
    /\ Len(names) = Len(registered)
    /\ \E p \in Permutations(1..Len(registered)) :
          /\ \A j \in 1..Len(names) : names[j] = registered[p[j]].name
          /\ \A i, j \in 1..Len(names) :
                i < j =>
                    /\ ~(registered[p[i]].center # None /\ registered[p[j]].center = None)
                    /\ ((registered[p[i]].center = None) = (registered[p[j]].center = None))
                           => p[i] < p[j]

\* C1: render_shapes applies the transformations of every shape in the order
\* of a stable partition of the registered list: every center-relative
\* transformation before every fixed-pivot one, each kind in its registered
\* order.
C1_StablePartitionOrder ==
    last.rendered =>
        \A k \in 1..Len(order) : StablePartition(applied[k], shapes[order[k]])

C1_Witness ==
    /\ last.rendered
    /\ \E k \in 1..Len(order) :
          /\ Len(shapes[order[k]]) = 3
          /\ shapes[order[k]][1].name = "rotP"
          /\ shapes[order[k]][2].name = "dil2"
          /\ shapes[order[k]][3].name = "rotQ"
          /\ applied[k] = <<"dil2", "rotP", "rotQ">>

Identity == Diagonal(Rat(1))

\* C9: trans_mat[0] of every Rotation and every Dilation is the identity,
\* and after render_shapes the depth-0 point set of every shape is the
\* shape's original points, whatever its transformation list.
C9_DepthZeroIsOriginal ==
    /\ \A shape \in DOMAIN shapes : \A j \in 1..Len(shapes[shape]) :
          shapes[shape][j].trans_mat[1] = Identity
    /\ \A fs \in final_shapes : \A k \in 1..Len(fs) : fs[k][1] = order[k].points

C9_Witness ==
    /\ last.rendered
    /\ \E fs \in final_shapes : \E k \in 1..Len(fs) :
          /\ applied[k] = <<"dilH", "rotC", "rotQ">>
          /\ fs[k][1] = order[k].points
          /\ fs[k][depth + 1] # order[k].points

-----------------------------------------------------------------------------
(* Properties of render_volume_data and write_to_scad (checked under       *)
(* AnimSpec).                                                              *)

AnimBounds == <<AnimBound, AnimBound>>

\* C2: every render_volume_data call returns the volume of the
\* shape-to-transformation-list mapping as it is at the moment of the call.
C2_RenderUsesCurrentShapes ==
    last.op = "render_volume_data" =>
        \E q \in Orders(DOMAIN shapes) :
            Get(last.volume) = Volume(Rendered(q), AnimBounds, AnimRes, last.fast)

\* the stacks fs in the order p
Permuted(fs, p) == List([k \in 1..Len(fs) |-> fs[p[k]]])

\* C3: with fast = False the returned volume is, at every depth index, the
\* union (logical OR) of the filled images of the shapes processed, each on
\* a fresh raster, and processing the shapes in another order returns the
\* same volume.
C3_FilledVolumeIsUnion ==
    (last.op = "render_volume_data" /\ ~last.fast) =>
        \A fs \in final_shapes : \A vol \in last.volume :
            /\ Len(vol) = Len(fs[1])
            /\ \A i \in 1..Len(vol) :
                  vol[i] = UNION {render_points_as_image(fs[k][i], AnimBounds, AnimRes) :
                                     k \in 1..Len(fs)}
            /\ \A p \in Permutations(1..Len(fs)) :
                  Volume(Permuted(fs, p), AnimBounds, AnimRes, FALSE) = vol

C3_Witness ==
    /\ last.op = "render_volume_data" /\ ~last.fast
    /\ \E fs \in final_shapes : \E vol \in last.volume :
          /\ Len(fs) = 2
          /\ \E i \in 2..Len(vol) : \E px \in vol[i] :
                /\ px \in render_points_as_image(fs[1][i], AnimBounds, AnimRes)
                /\ px \in render_points_as_image(fs[2][i], AnimBounds, AnimRes)

\* C4: with fast = True the returned volume is, at every depth index, the
\* union of the wireframes of the shapes processed, each drawn on a blank
\* raster; drawing a shape again changes nothing, and drawing the shapes in
\* another order returns the same volume.
C4_WireVolumeIsUnion ==
    (last.op = "render_volume_data" /\ last.fast) =>
        \A fs \in final_shapes : \A vol \in last.volume :
            /\ Len(vol) = Len(fs[1])
            /\ \A i \in 1..Len(vol) :
                  /\ vol[i] = UNION {render_points_as_wires(fs[k][i], AnimBounds,
                                                            AnimRes, None) :
                                        k \in 1..Len(fs)}
                  /\ \A k \in 1..Len(fs) :
                        render_points_as_wires(fs[k][i], AnimBounds, AnimRes,
                                               Some(vol[i])) = vol[i]
            /\ \A p \in Permutations(1..Len(fs)) :
                  Volume(Permuted(fs, p), AnimBounds, AnimRes, TRUE) = vol

C4_Witness ==
    /\ last.op = "render_volume_data" /\ last.fast
    /\ \E fs \in final_shapes : \E vol \in last.volume :
          /\ Len(fs) = 2
          /\ \E i \in 2..Len(vol) :
                LET w1 == render_points_as_wires(fs[1][i], AnimBounds, AnimRes, None)
                    w2 == render_points_as_wires(fs[2][i], AnimBounds, AnimRes, None)
                IN  /\ w1 \ w2 # {} /\ w2 \ w1 # {}
                    /\ w1 \subseteq vol[i] /\ w2 \subseteq vol[i]

\* C10: write_to_scad completes without an index error and exports, for
\* every shape, the depth+1 layers of the compositor output, layer i built
\* from the shape's point set at depth i.
C10_ScadExportsEveryLayer ==
    last.op = "write_to_scad" =>
        /\ last.raised = ""
        /\ last.scad # None
        /\ \A fs \in final_shapes : \A scad \in last.scad :
              /\ Len(scad) = Len(fs)
              /\ \A k \in 1..Len(fs) :
                    /\ Len(scad[k]) = depth + 1
                    /\ \A i \in 1..(depth + 1) : scad[k][i].polygon = fs[k][i]

=============================================================================
